---- MODULE Spec2Model ----
(***************************************************************************)
(* The C11 <threads.h> emulation of threads_posix.h over POSIX threads:    *)
(* the mutex functions (7.25.4) with both timed-lock strategies, and the   *)
(* thread functions (7.25.5) with the start-package trampoline.            *)
(*                                                                         *)
(* The native layer (pthread_*, malloc, time) is modelled by what POSIX    *)
(* documents; where POSIX leaves the behaviour undefined the native        *)
(* operator yields every outcome a build can show.                         *)
(***************************************************************************)
EXTENDS Integers, Sequences, FiniteSets, TLC

(* ------------------------------ bounds -------------------------------- *)
\* the wall clock runs from 0 to MaxTime (whole seconds)
MaxTime == 1
\* a recursive mutex is relocked at most up to this hold count
MaxHold == 2
\* yields counted per emulated mtx_timedlock call
MaxYields == 2
\* the contention test: NWorkers threads, Iters increments each
NWorkers == 2
Iters == 2
\* thrd_create is called at most MaxCreated times
MaxCreated == 1
\* the widths of int and of intptr_t / void *, scaled down
IntBits == 3
PtrBits == 4

\* the threads that use the shared mutex
Threads == {1, 2}
NoThread == 0

(* --------------------------- result codes ----------------------------- *)
thrd_success == "thrd_success"
thrd_busy == "thrd_busy"
thrd_error == "thrd_error"
thrd_nomem == "thrd_nomem"
NoRet == "none"
ResultCodes == {thrd_success, thrd_busy, thrd_error, thrd_nomem}

(* ---------------------------- mutex kinds ----------------------------- *)
\* A kind value is a bit pattern over four flags; a | b is the union.
mtx_plain == {"plain"}
mtx_timed == {"timed"}
mtx_try == {"try"}
mtx_recursive == {"recursive"}
KindValues == SUBSET {"plain", "timed", "try", "recursive"}
NoKind == {"none"}

\* the test of mtx_init: type is one of the six accepted values
ValidKind(type) ==
    ~ (type # mtx_plain /\ type # mtx_timed /\ type # mtx_try
       /\ type # (mtx_plain \cup mtx_recursive)
       /\ type # (mtx_timed \cup mtx_recursive)
       /\ type # (mtx_try \cup mtx_recursive))

(* ------------------------- arguments, time ---------------------------- *)
NULL == "NULL"
TheMutex == "mtx"
MtxArgs == {NULL, TheMutex}
\* a const xtime * argument: the null pointer, or an xtime of whole
\* seconds and a sub-second part
XTimes == [null : {FALSE}, sec : 0..MaxTime, nsec : {0, 500}]
NullXt == [null |-> TRUE, sec |-> 0, nsec |-> 0]
XtArgs == {NullXt} \cup XTimes
\* the argument pairs of mtx_timedlock
TimedArgs == {<<NULL, x>> : x \in {NullXt, [null |-> FALSE, sec |-> 0, nsec |-> 0]}}
             \cup {<<TheMutex, x>> : x \in XtArgs}

(* ------------------------ native mutex object ------------------------- *)
\* created: pthread_mutex_init returned 0 on it.  usable: its memory acts as
\* a mutex (always so when created; indeterminate memory may or may not).
NoMutex ==
    [kind |-> NoKind, created |-> FALSE, usable |-> FALSE,
     recursive |-> FALSE, owner |-> NoThread, count |-> 0]

CanAcquire(m, t) ==
    m.usable /\ (m.owner = NoThread \/ (m.owner = t /\ m.recursive))

Acquire(m, t) == [m EXCEPT !.owner = t, !.count = m.count + 1]

Release(m) ==
    [m EXCEPT !.count = m.count - 1,
              !.owner = IF m.count = 1 THEN NoThread ELSE m.owner]

\* Each native operator yields the set of its possible outcomes [rc, m];
\* rc "BLOCK" stands for the caller being suspended inside the call.
pthread_mutex_lock(m, t) ==
    IF ~m.usable THEN {[rc |-> "EINVAL", m |-> m]}
    ELSE IF CanAcquire(m, t) THEN {[rc |-> "0", m |-> Acquire(m, t)]}
    ELSE IF m.owner = t
         \* relock of a non-recursive mutex by its owner: undefined
         THEN {[rc |-> "EDEADLK", m |-> m], [rc |-> "BLOCK", m |-> m]}
    ELSE {[rc |-> "BLOCK", m |-> m]}

pthread_mutex_trylock(m, t) ==
    IF ~m.usable THEN {[rc |-> "EINVAL", m |-> m]}
    ELSE IF CanAcquire(m, t) THEN {[rc |-> "0", m |-> Acquire(m, t)]}
    ELSE {[rc |-> "EBUSY", m |-> m]}

pthread_mutex_unlock(m, t) ==
    IF ~m.usable THEN {[rc |-> "EINVAL", m |-> m]}
    ELSE IF m.owner = t THEN {[rc |-> "0", m |-> Release(m)]}
    ELSE IF m.recursive THEN {[rc |-> "EPERM", m |-> m]}
    \* unlock of a default-type mutex the caller does not hold: undefined
    ELSE {[rc |-> "EPERM", m |-> m],
          [rc |-> "0", m |-> [m EXCEPT !.owner = NoThread, !.count = 0]]}

\* the absolute deadline ts has been reached when the clock reads clk
Reached(ts, clk) == ts.sec < clk \/ (ts.sec = clk /\ ts.nsec = 0)

pthread_mutex_timedlock(m, t, ts, clk) ==
    IF ~m.usable THEN {[rc |-> "EINVAL", m |-> m]}
    ELSE IF CanAcquire(m, t) THEN {[rc |-> "0", m |-> Acquire(m, t)]}
    ELSE (IF Reached(ts, clk) THEN {[rc |-> "ETIMEDOUT", m |-> m]}
          ELSE {[rc |-> "BLOCK", m |-> m]})
         \* relock of a non-recursive mutex by its owner: the deadlock may
         \* be detected
         \cup (IF m.owner = t THEN {[rc |-> "EDEADLK", m |-> m]} ELSE {})


(* ------------------- native mutex attribute object -------------------- *)
\* pthread_mutexattr_init: success gives a valid default-type attribute;
\* on failure attr stays uninitialised and whatever type it holds is read
\* later.
pthread_mutexattr_init ==
    {[rc |-> "0", attr |-> [valid |-> TRUE, recursive |-> FALSE]]}
    \cup {[rc |-> "ENOMEM", attr |-> [valid |-> FALSE, recursive |-> g]] :
            g \in BOOLEAN}

\* on an uninitialised attr (undefined) the call rejects it, or writes the
\* type into it unchecked
pthread_mutexattr_settype(attr) ==
    IF attr.valid
    THEN {[rc |-> "0", attr |-> [attr EXCEPT !.recursive = TRUE]]}
    ELSE {[rc |-> "EINVAL", attr |-> attr],
          [rc |-> "0", attr |-> [attr EXCEPT !.recursive = TRUE]]}

\* the mutex memory after a failed initialisation is indeterminate
Indeterminate(type) ==
    {[NoMutex EXCEPT !.kind = type, !.usable = u, !.recursive = u /\ r] :
        u \in BOOLEAN, r \in BOOLEAN}

pthread_mutex_init(type, attr) ==
    {[rc |-> "0",
      m |-> [NoMutex EXCEPT !.kind = type, !.created = TRUE, !.usable = TRUE,
                            !.recursive = attr.recursive]]}
    \cup {[rc |-> IF attr.valid THEN "ENOMEM" ELSE "EINVAL", m |-> x] :
            x \in Indeterminate(type)}

(* ------------------------------ state --------------------------------- *)
VARIABLES
    build,      \* [native: timed-lock strategy, ndebug: assert compiled out]
    proc,       \* "running", "aborted" (assert failed) or "crashed"
    mutex,      \* the shared native mutex object
    now,        \* the wall clock, whole seconds
    pc,         \* per thread: where it is inside a call, or "idle"
    call,       \* per thread: the call in progress and what it did so far
    last,       \* the call that returned in the step just taken, if any
    counter,    \* the contention test's shared counter
    wk,         \* per worker: [at: its position, tmp: the value read, left]
    heap,       \* per slot: the start package malloc gave thrd_create
    cr,         \* the creating thread inside thrd_create or thrd_join
    th,         \* per slot: the native thread running impl_thrd_routine
    tret        \* the thread call that returned in the step just taken

mvars == <<build, proc, mutex, now, pc, call, last>>
cvars == <<counter, wk>>
tvars == <<heap, cr, th, tret>>
vars == <<mvars, cvars, tvars>>

NoTs == [sec |-> 0, nsec |-> 0]

\* ts: the struct timespec handed to the native timed lock.
\* held/free: the mutex was held by another thread / held by no thread at
\* every moment of the call so far.
NoCall ==
    [op |-> "none", xt |-> NullXt, entry |-> 0, expire |-> 0, yields |-> 0,
     natives |-> {}, held |-> FALSE, free |-> FALSE, ts |-> NoTs]

\* when: the deadline seen from the clock at call entry.  holds: the caller
\* held the mutex on return.
NoLast ==
    [t |-> NoThread, op |-> "none", ret |-> NoRet, type |-> NoKind,
     nullarg |-> FALSE, when |-> "none", yields |-> 0, natives |-> {},
     rcs |-> <<>>, held |-> FALSE, free |-> FALSE, holds |-> FALSE,
     xt |-> NullXt, ts |-> NoTs, entry |-> 0]

Enter(t, name) ==
    [NoCall EXCEPT !.op = name, !.entry = now,
                   !.held = mutex.usable /\ mutex.owner \notin {NoThread, t},
                   !.free = mutex.usable /\ mutex.owner = NoThread]

When(c) ==
    IF c.xt.null THEN "none"
    ELSE IF c.xt.sec < c.entry THEN "past"
    ELSE IF c.xt.sec > c.entry THEN "future" ELSE "present"

Return(c, t, code, m2) ==
    [NoLast EXCEPT !.t = t, !.op = c.op, !.ret = code, !.when = When(c),
                   !.yields = c.yields,
                   !.natives = c.natives, !.held = c.held, !.free = c.free,
                   !.holds = m2.usable /\ m2.owner = t,
                   !.xt = c.xt, !.ts = c.ts, !.entry = c.entry]

\* the calls in progress in other threads see the mutex change to m2
Track(t, m2) ==
    [u \in DOMAIN pc |->
        IF u # t /\ pc[u] # "idle"
        THEN [call[u] EXCEPT
                !.held = @ /\ m2.owner \notin {NoThread, u},
                !.free = @ /\ m2.owner = NoThread]
        ELSE call[u]]

Native(c, name) == [c EXCEPT !.natives = @ \cup {name}]

Idle(t) == proc = "running" /\ pc[t] = "idle"
InUse(t) == Idle(t) /\ mutex.kind # NoKind

\* assert(p != NULL) with p null: abort() unless NDEBUG is defined.  With
\* NDEBUG the null pointer is used, which is undefined: the process crashes
\* on it, or (codes) the native call it is handed to rejects it.
AssertFails(t, c, codes) ==
    /\ \E o \in IF build.ndebug THEN {"crashed"} \cup codes ELSE {"aborted"} :
          /\ proc' = IF o \in codes THEN "running" ELSE o
          /\ last' = [IF o \in codes
                      THEN Return(Native(c, "undefined"), t, o, mutex)
                      ELSE Return(c, t, NoRet, mutex) EXCEPT !.nullarg = TRUE]
    /\ UNCHANGED <<build, mutex, now, pc, call>>

(* --------------------------- 7.25.4.2 mtx_init ------------------------ *)
\* a faulty variant: the try kinds get the recursive native type as well
mtx_init_native_try_recursive(type) ==
    LET rec == (type \cap (mtx_recursive \cup mtx_try)) # {}
        Typed(a) == IF rec THEN pthread_mutexattr_settype(a.attr)
                    ELSE {[rc |-> "skipped", attr |-> a.attr]}
    IN  UNION UNION
        {{{[m |-> i.m, rcs |-> <<a.rc, s.rc, i.rc>>,
            natives |-> {"pthread_mutexattr_init", "pthread_mutex_init",
                         "pthread_mutexattr_destroy"}
                        \cup IF rec THEN {"pthread_mutexattr_settype"}
                             ELSE {}] :
              i \in pthread_mutex_init(type, s.attr)} :
            s \in Typed(a)} :
          a \in pthread_mutexattr_init}

\* the native calls of mtx_init for an accepted type, results ignored
mtx_init_native(type) ==
    LET rec == (type \cap mtx_recursive) # {}
        Typed(a) == IF rec THEN pthread_mutexattr_settype(a.attr)
                    ELSE {[rc |-> "skipped", attr |-> a.attr]}
    IN  UNION UNION
        {{{[m |-> i.m, rcs |-> <<a.rc, s.rc, i.rc>>,
            natives |-> {"pthread_mutexattr_init", "pthread_mutex_init",
                         "pthread_mutexattr_destroy"}
                        \cup IF rec THEN {"pthread_mutexattr_settype"}
                             ELSE {}] :
              i \in pthread_mutex_init(type, s.attr)} :
            s \in Typed(a)} :
          a \in pthread_mutexattr_init}

\* a faulty variant: the result of pthread_mutex_init decides
mtx_init_result_checked(rcs) ==
    IF rcs[3] = "0" THEN thrd_success ELSE thrd_error

\* return thrd_success; whatever the native calls returned
mtx_init_result(rcs) == thrd_success

mtx_init(t, marg, type) ==
    /\ Idle(t)
    /\ mutex.kind = NoKind
    /\ LET c == Enter(t, "mtx_init") IN
       IF marg = NULL THEN AssertFails(t, c, {})
       ELSE IF ~ValidKind(type)
       THEN /\ last' = [Return(c, t, thrd_error, mutex) EXCEPT !.type = type]
            /\ UNCHANGED <<build, proc, mutex, now, pc, call>>
       ELSE \E o \in mtx_init_native(type) :
            /\ mutex' = o.m
            /\ last' = [Return([c EXCEPT !.natives = o.natives], t,
                               mtx_init_result(o.rcs), o.m)
                        EXCEPT !.type = type, !.rcs = o.rcs]
            /\ UNCHANGED <<build, proc, now, pc, call>>

(* --------------------------- 7.25.4.3 mtx_lock ------------------------ *)
mtx_lock_result(rc) == IF rc = "0" THEN thrd_success ELSE thrd_error

mtx_lock(t, marg) ==
    /\ InUse(t)
    /\ LET c == Enter(t, "mtx_lock") IN
       IF marg = NULL THEN AssertFails(t, c, {mtx_lock_result("EINVAL")})
       ELSE \E o \in pthread_mutex_lock(mutex, t) :
            /\ o.m.count <= MaxHold
            /\ mutex' = o.m
            /\ IF o.rc = "BLOCK"
               THEN /\ pc' = [pc EXCEPT ![t] = "lock_blocked"]
                    /\ call' = [Track(t, o.m) EXCEPT ![t] =
                                  Native(c, "pthread_mutex_lock")]
                    /\ last' = NoLast
               ELSE /\ pc' = pc
                    /\ call' = Track(t, o.m)
                    /\ last' = Return(Native(c, "pthread_mutex_lock"), t,
                                      mtx_lock_result(o.rc), o.m)
            /\ UNCHANGED <<build, proc, now>>

\* a thread suspended in pthread_mutex_lock gets the mutex
mtx_lock_wake(t) ==
    /\ proc = "running"
    /\ pc[t] = "lock_blocked"
    /\ \E o \in pthread_mutex_lock(mutex, t) :
        /\ o.rc = "0"
        /\ mutex' = o.m
        /\ pc' = [pc EXCEPT ![t] = "idle"]
        /\ call' = [Track(t, o.m) EXCEPT ![t] = NoCall]
        /\ last' = Return(call[t], t, mtx_lock_result(o.rc), o.m)
    /\ UNCHANGED <<build, proc, now>>

(* -------------------------- 7.25.4.5 mtx_trylock ---------------------- *)
\* a faulty variant: every native result taken for success
mtx_trylock_result_any(rc) == thrd_success

\* a faulty variant: a native failure reported as mtx_lock reports it
mtx_trylock_result_as_lock(rc) == IF rc = "0" THEN thrd_success ELSE thrd_error

mtx_trylock_result(rc) == IF rc = "0" THEN thrd_success ELSE thrd_busy

mtx_trylock(t, marg) ==
    /\ InUse(t)
    /\ LET c == Enter(t, "mtx_trylock") IN
       IF marg = NULL THEN AssertFails(t, c, {mtx_trylock_result("EINVAL")})
       ELSE \E o \in pthread_mutex_trylock(mutex, t) :
            /\ o.m.count <= MaxHold
            /\ mutex' = o.m
            /\ call' = Track(t, o.m)
            /\ last' = Return(Native(c, "pthread_mutex_trylock"), t,
                              mtx_trylock_result(o.rc), o.m)
            /\ UNCHANGED <<build, proc, now, pc>>

(* -------------------------- 7.25.4.6 mtx_unlock ----------------------- *)
mtx_unlock_result(rc) == IF rc = "0" THEN thrd_success ELSE thrd_error

mtx_unlock(t, marg) ==
    /\ InUse(t)
    /\ LET c == Enter(t, "mtx_unlock") IN
       IF marg = NULL THEN AssertFails(t, c, {mtx_unlock_result("EINVAL")})
       ELSE \E o \in pthread_mutex_unlock(mutex, t) :
            /\ mutex' = o.m
            /\ call' = Track(t, o.m)
            /\ last' = Return(Native(c, "pthread_mutex_unlock"), t,
                              mtx_unlock_result(o.rc), o.m)
            /\ UNCHANGED <<build, proc, now, pc>>

(* ------------------------- 7.25.4.4 mtx_timedlock --------------------- *)
\* a faulty variant: the test of the native result inverted
mtx_timedlock_result_inverted(rc) ==
    IF rc # "0" THEN thrd_success
    ELSE IF rc = "ETIMEDOUT" THEN thrd_busy ELSE thrd_error

mtx_timedlock_result(rc) ==
    IF rc = "0" THEN thrd_success
    ELSE IF rc = "ETIMEDOUT" THEN thrd_busy ELSE thrd_error

\* a faulty variant: the nanoseconds are not passed on
mtx_timedlock_ts_sec_only(xt) == [sec |-> xt.sec, nsec |-> 0]

\* ts.tv_sec = xt->sec; ts.tv_nsec = xt->nsec;
mtx_timedlock_ts(xt) == [sec |-> xt.sec, nsec |-> xt.nsec]

\* EMULATED_THREADS_USE_NATIVE_TIMEDLOCK: ts is xt, handed to the native
\* timed lock as its absolute deadline
mtx_timedlock_native(t, c0) ==
    LET ts == mtx_timedlock_ts(c0.xt)
        c == [Native(c0, "pthread_mutex_timedlock") EXCEPT !.ts = ts]
    IN
    \E o \in pthread_mutex_timedlock(mutex, t, ts, now) :
        /\ o.m.count <= MaxHold
        /\ mutex' = o.m
        /\ IF o.rc = "BLOCK"
           THEN /\ pc' = [pc EXCEPT ![t] = "timed_blocked"]
                /\ call' = [Track(t, o.m) EXCEPT ![t] = c]
                /\ last' = NoLast
           ELSE /\ pc' = pc
                /\ call' = Track(t, o.m)
                /\ last' = [Return(c, t, mtx_timedlock_result(o.rc), o.m)
                            EXCEPT !.rcs = <<o.rc>>]
        /\ UNCHANGED <<build, proc, now>>

\* a faulty variant: a deadline with nanoseconds expires a second later
mtx_timedlock_expire_rounded(clk, xt) ==
    clk + xt.sec + (IF xt.nsec > 0 THEN 1 ELSE 0)

\* time_t expire = time(NULL); expire += xt->sec;
mtx_timedlock_expire(clk, xt) == clk + xt.sec

\* otherwise: expire = time(NULL); expire += xt->sec; then the loop
mtx_timedlock_emulated(t, c) ==
    /\ pc' = [pc EXCEPT ![t] = "timed_try"]
    /\ call' = [call EXCEPT ![t] =
                  Native([c EXCEPT !.expire = mtx_timedlock_expire(now, c.xt)],
                         "time")]
    /\ last' = NoLast
    /\ UNCHANGED <<build, proc, mutex, now>>

mtx_timedlock(t, marg, xt) ==
    /\ InUse(t)
    /\ LET c == [Enter(t, "mtx_timedlock") EXCEPT !.xt = xt] IN
       IF marg = NULL \/ xt.null
       THEN AssertFails(t, c, IF build.native /\ ~xt.null
                              THEN {mtx_timedlock_result("EINVAL")} ELSE {})
       ELSE IF build.native THEN mtx_timedlock_native(t, c)
       ELSE mtx_timedlock_emulated(t, c)

\* a thread suspended in pthread_mutex_timedlock gets the mutex, or the
\* clock has reached its deadline
mtx_timedlock_wake(t) ==
    /\ proc = "running"
    /\ pc[t] = "timed_blocked"
    /\ \E o \in pthread_mutex_timedlock(mutex, t, call[t].ts, now) :
        /\ o.rc \in {"0", "ETIMEDOUT"}
        /\ mutex' = o.m
        /\ pc' = [pc EXCEPT ![t] = "idle"]
        /\ call' = [Track(t, o.m) EXCEPT ![t] = NoCall]
        /\ last' = [Return(call[t], t, mtx_timedlock_result(o.rc), o.m)
                    EXCEPT !.rcs = <<o.rc>>]
    /\ UNCHANGED <<build, proc, now>>

\* the loop condition: while (mtx_trylock(mtx) != thrd_success)
mtx_timedlock_try(t) ==
    /\ proc = "running"
    /\ pc[t] = "timed_try"
    /\ \E o \in pthread_mutex_trylock(mutex, t) :
        /\ o.m.count <= MaxHold
        /\ mutex' = o.m
        /\ LET c == Native(call[t], "pthread_mutex_trylock") IN
           IF mtx_trylock_result(o.rc) # thrd_success
           THEN /\ pc' = [pc EXCEPT ![t] = "timed_check"]
                /\ call' = [Track(t, o.m) EXCEPT ![t] = c]
                /\ last' = NoLast
           ELSE /\ pc' = [pc EXCEPT ![t] = "idle"]
                /\ call' = [Track(t, o.m) EXCEPT ![t] = NoCall]
                /\ last' = Return(c, t, thrd_success, o.m)
    /\ UNCHANGED <<build, proc, now>>

\* a faulty variant: the comparison turned round
mtx_timedlock_expired_inverted(expire, clk) == clk < expire

\* if (expire < now)
mtx_timedlock_expired(expire, clk) == expire < clk

\* the loop body: now = time(NULL); if (expire < now) return thrd_busy;
\* thrd_yield();
mtx_timedlock_check(t) ==
    /\ proc = "running"
    /\ pc[t] = "timed_check"
    /\ IF mtx_timedlock_expired(call[t].expire, now)
       THEN /\ pc' = [pc EXCEPT ![t] = "idle"]
            /\ call' = [call EXCEPT ![t] = NoCall]
            /\ last' = Return(call[t], t, thrd_busy, mutex)
       ELSE /\ call[t].yields < MaxYields
            /\ pc' = [pc EXCEPT ![t] = "timed_try"]
            /\ call' = [call EXCEPT ![t] =
                          [Native(@, "sched_yield") EXCEPT !.yields = @ + 1]]
            /\ last' = NoLast
    /\ UNCHANGED <<build, proc, mutex, now>>

(* ------------------------ 7.25.3.5 cnd_timedwait ---------------------- *)
\* struct timespec abs_time; is never assigned: its value is indeterminate,
\* any seconds and any nanoseconds, in range or (nsec < 0) out of range
cnd_timedwait_abs_time == [sec : 0..MaxTime, nsec : {0 - 1, 0, 500}]

\* pthread_cond_timedwait(cond, mtx, abs) called by t, which holds m: the
\* outcomes [rc, m]; rc "BLOCK" stands for t waiting with m released
pthread_cond_timedwait(m, t, abs, clk) ==
    IF abs.nsec < 0 THEN {[rc |-> "EINVAL", m |-> m]}
    ELSE IF Reached(abs, clk) THEN {[rc |-> "ETIMEDOUT", m |-> m]}
    ELSE {[rc |-> "BLOCK", m |-> Release(m)]}

\* if (rt == ETIMEDOUT) return thrd_busy;
\* return (rt == 0) ? thrd_success : thrd_error;
cnd_timedwait_result(rt) ==
    IF rt = "ETIMEDOUT" THEN thrd_busy
    ELSE IF rt = "0" THEN thrd_success ELSE thrd_error

\* cond and mtx are not NULL, and the caller holds mtx once
cnd_timedwait(t, xt) ==
    /\ InUse(t)
    /\ mutex.usable /\ mutex.owner = t /\ mutex.count = 1
    /\ \E abs_time \in cnd_timedwait_abs_time :
       \E o \in pthread_cond_timedwait(mutex, t, abs_time, now) :
        LET c == [Native(Enter(t, "cnd_timedwait"), "pthread_cond_timedwait")
                  EXCEPT !.xt = xt, !.ts = abs_time]
        IN  /\ mutex' = o.m
            /\ IF o.rc = "BLOCK"
               THEN /\ pc' = [pc EXCEPT ![t] = "cnd_blocked"]
                    /\ call' = [Track(t, o.m) EXCEPT ![t] = c]
                    /\ last' = NoLast
               ELSE /\ pc' = pc
                    /\ call' = Track(t, o.m)
                    /\ last' = [Return(c, t, cnd_timedwait_result(o.rc), o.m)
                                EXCEPT !.rcs = <<o.rc>>]
    /\ UNCHANGED <<build, proc, now>>

\* 7.25.3.4 cnd_signal: a thread waiting on the condition, if any, is woken
cnd_signal_result(rc) == IF rc = "0" THEN thrd_success ELSE thrd_error

cnd_signal(t) ==
    /\ InUse(t)
    /\ \E u \in Threads \cup {NoThread} :
        /\ IF u = NoThread THEN \A v \in Threads : pc[v] # "cnd_blocked"
           ELSE pc[u] = "cnd_blocked"
        /\ pc' = [v \in DOMAIN pc |-> IF v = u THEN "cnd_signalled" ELSE pc[v]]
    /\ last' = Return(Native(Enter(t, "cnd_signal"), "pthread_cond_signal"),
                      t, cnd_signal_result("0"), mutex)
    /\ UNCHANGED <<build, proc, mutex, now, call>>

\* the clock reaches the deadline the native wait was given
cnd_timedwait_timeout(t) ==
    /\ proc = "running"
    /\ pc[t] = "cnd_blocked"
    /\ Reached(call[t].ts, now)
    /\ pc' = [pc EXCEPT ![t] = "cnd_timedout"]
    /\ last' = NoLast
    /\ UNCHANGED <<build, proc, mutex, now, call>>

\* the woken thread gets the mutex back and pthread_cond_timedwait returns
cnd_timedwait_wake(t) ==
    /\ proc = "running"
    /\ pc[t] \in {"cnd_signalled", "cnd_timedout"}
    /\ CanAcquire(mutex, t)
    /\ LET rc == IF pc[t] = "cnd_signalled" THEN "0" ELSE "ETIMEDOUT"
           m2 == Acquire(mutex, t)
       IN  /\ mutex' = m2
           /\ call' = [Track(t, m2) EXCEPT ![t] = NoCall]
           /\ last' = [Return(call[t], t, cnd_timedwait_result(rc), m2)
                       EXCEPT !.rcs = <<rc>>]
    /\ pc' = [pc EXCEPT ![t] = "idle"]
    /\ UNCHANGED <<build, proc, now>>

(* ------------------------- 7.25.5.7 thrd_sleep ------------------------ *)
\* req.tv_sec = xt->sec; req.tv_nsec = xt->nsec;
thrd_sleep_req(xt) == [sec |-> xt.sec, nsec |-> xt.nsec]

\* a faulty variant: the request is taken as a point on the clock
nanosleep_until_absolute(entry, req) == [sec |-> req.sec, nsec |-> req.nsec]

\* nanosleep(&req, NULL), no signal being delivered: the calling thread is
\* suspended until the interval req has elapsed since the call
nanosleep_until(entry, req) == [sec |-> entry + req.sec, nsec |-> req.nsec]

thrd_sleep(t, xt) ==
    /\ Idle(t)
    /\ LET c0 == [Enter(t, "thrd_sleep") EXCEPT !.xt = xt]
       IN  IF xt.null THEN AssertFails(t, c0, {})
           ELSE LET req == thrd_sleep_req(xt)
                    c == [Native(c0, "nanosleep") EXCEPT !.ts = req]
                IN  /\ IF Reached(nanosleep_until(now, req), now)
                       THEN /\ pc' = pc
                            /\ call' = call
                            /\ last' = Return(c, t, NoRet, mutex)
                       ELSE /\ pc' = [pc EXCEPT ![t] = "sleeping"]
                            /\ call' = [call EXCEPT ![t] = c]
                            /\ last' = NoLast
                    /\ UNCHANGED <<build, proc, mutex, now>>

\* the interval has elapsed: nanosleep returns, and so does thrd_sleep
thrd_sleep_wake(t) ==
    /\ proc = "running"
    /\ pc[t] = "sleeping"
    /\ Reached(nanosleep_until(call[t].entry, call[t].ts), now)
    /\ pc' = [pc EXCEPT ![t] = "idle"]
    /\ call' = [call EXCEPT ![t] = NoCall]
    /\ last' = Return(call[t], t, NoRet, mutex)
    /\ UNCHANGED <<build, proc, mutex, now>>

(* ------------- the emulated timed lock, two calls side by side -------- *)
\* Thread Caller calls mtx_timedlock twice over, in two runs of the program
\* that see the same clock and the same mutex (the other threads' schedule
\* is the same): pc[Caller], call[Caller] are the call of the first run,
\* pc[Second], call[Second] the same call of the second run.  A call that
\* has returned waits at "ret_success" or "ret_busy" for its twin.
Caller == 1
Second == 3
Runs == {Caller, Second}

twin_call(xa, xb) ==
    /\ proc = "running"
    /\ \A r \in Runs : pc[r] = "idle"
    /\ mutex.owner # Caller
    /\ LET c == Enter(Caller, "mtx_timedlock")
           e(xt) == Native([c EXCEPT !.xt = xt,
                                     !.expire = mtx_timedlock_expire(now, xt)],
                           "time")
       IN call' = [call EXCEPT ![Caller] = e(xa), ![Second] = e(xb)]
    /\ pc' = [pc EXCEPT ![Caller] = "timed_try", ![Second] = "timed_try"]
    /\ last' = NoLast
    /\ UNCHANGED <<build, proc, mutex, now>>

\* while (mtx_trylock(mtx) != thrd_success), in each run that is there
twin_try ==
    /\ proc = "running"
    /\ \E r \in Runs : pc[r] = "timed_try"
    /\ \E o \in pthread_mutex_trylock(mutex, Caller) :
        /\ mutex' = o.m
        /\ pc' = [r \in DOMAIN pc |->
                    IF r \in Runs /\ pc[r] = "timed_try"
                    THEN IF mtx_trylock_result(o.rc) # thrd_success
                         THEN "timed_check" ELSE "ret_success"
                    ELSE pc[r]]
        /\ call' = [r \in DOMAIN pc |->
                    IF r \in Runs /\ pc[r] = "timed_try"
                    THEN Native(call[r], "pthread_mutex_trylock")
                    ELSE Track(Caller, o.m)[r]]
    /\ last' = NoLast
    /\ UNCHANGED <<build, proc, now>>

\* now = time(NULL); if (expire < now) return thrd_busy; thrd_yield();
\* in each run that is there
twin_check ==
    /\ proc = "running"
    /\ \E r \in Runs : pc[r] = "timed_check"
    /\ \A r \in Runs :
          (pc[r] = "timed_check"
             /\ ~mtx_timedlock_expired(call[r].expire, now))
          => call[r].yields < MaxYields
    /\ pc' = [r \in DOMAIN pc |->
                IF r \in Runs /\ pc[r] = "timed_check"
                THEN IF mtx_timedlock_expired(call[r].expire, now)
                     THEN "ret_busy" ELSE "timed_try"
                ELSE pc[r]]
    /\ call' = [r \in DOMAIN pc |->
                IF r \in Runs /\ pc[r] = "timed_check"
                   /\ ~mtx_timedlock_expired(call[r].expire, now)
                THEN [Native(call[r], "sched_yield") EXCEPT !.yields = @ + 1]
                ELSE call[r]]
    /\ last' = NoLast
    /\ UNCHANGED <<build, proc, mutex, now>>

\* both calls have returned
twin_return ==
    /\ proc = "running"
    /\ \A r \in Runs : pc[r] \in {"ret_success", "ret_busy"}
    /\ last' = Return(call[Caller], Caller,
                      IF pc[Caller] = "ret_success" THEN thrd_success
                      ELSE thrd_busy, mutex)
    /\ pc' = [pc EXCEPT ![Caller] = "idle", ![Second] = "idle"]
    /\ call' = [call EXCEPT ![Caller] = NoCall, ![Second] = NoCall]
    /\ UNCHANGED <<build, proc, mutex, now>>

(* ------------------------------ the clock ----------------------------- *)
\* the wall clock advances by a second, up to limit
Clock(limit) ==
    /\ proc = "running"
    /\ now < limit
    /\ now' = now + 1
    /\ last' = NoLast
    /\ UNCHANGED <<build, proc, mutex, pc, call>>

Tick == Clock(MaxTime)

(* ------------------- 7.25.5 threads: conversions ---------------------- *)
RECURSIVE Pow2(_)
Pow2(n) == IF n = 0 THEN 1 ELSE 2 * Pow2(n - 1)

\* the value of x in a signed type of the given width
Signed(x, bits) == ((x + Pow2(bits - 1)) % Pow2(bits)) - Pow2(bits - 1)

Ints == (0 - Pow2(IntBits - 1)) .. (Pow2(IntBits - 1) - 1)
Pointers == 0 .. (Pow2(PtrBits) - 1)

\* (void*)(intptr_t)v: widened to intptr_t, then the pointer with those bits
impl_thrd_routine_result(v) == Signed(v, PtrBits) % Pow2(PtrBits)

\* a faulty variant: the code is dropped and a null pointer published
thrd_exit_result_null(res) == 0

\* (void*)(intptr_t)res, the argument thrd_exit hands to pthread_exit
thrd_exit_result(res) == Signed(res, PtrBits) % Pow2(PtrBits)

\* pthread_exit(p) terminates the calling thread with exit value p and does
\* not return
pthread_exit(p) == [returns |-> FALSE, exit |-> p]

\* a faulty variant: the pointer cut to one bit less than an int
thrd_join_result_short(code) == Signed(Signed(code, PtrBits), IntBits - 1)

\* (int)(intptr_t)code
thrd_join_result(code) == Signed(Signed(code, PtrBits), IntBits)

(* ------------------- 7.25.5 threads: state ---------------------------- *)
Slots == 1..MaxCreated
Args == {"arg1"}
NoFunc == [ret |-> 0, set |-> FALSE, how |-> "return"]
INT_MAX == Pow2(IntBits - 1) - 1
INT_MIN == 0 - Pow2(IntBits - 1)
\* a start function is known by its code ret and by how it ends: it returns
\* ret, or it calls thrd_exit(ret) (and would return 0 after that call)
Funcs == [ret : {0, 1, 0 - 1, INT_MAX, INT_MIN}, set : {TRUE},
          how : {"return", "exit"}]

\* frees: how often the package was freed; bad: it was read, written or
\* freed when it was not allocated; by: who freed it; raced: the creator
\* touched it while the new thread existed; given: what thrd_create was
\* called with
NoPack ==
    [state |-> "none", func |-> NoFunc, arg |-> NULL, frees |-> 0,
     bad |-> FALSE, by |-> "nobody", raced |-> FALSE,
     given |-> [func |-> NoFunc, arg |-> NULL]]

NoThrd ==
    [state |-> "none", at |-> "none", func |-> NoFunc, arg |-> NULL,
     detached |-> FALSE, joined |-> FALSE, released |-> FALSE,
     calls |-> 0, got |-> NULL, retv |-> 0, exit |-> 0,
     how |-> "none", past |-> FALSE, pack |-> "none"]

NoCr == [at |-> "idle", slot |-> 0, rc |-> "none", natives |-> {}, res |-> FALSE]

NoTret ==
    [op |-> "none", slot |-> 0, ret |-> NoRet, rc |-> "none", natives |-> {},
     nomem |-> FALSE, joinable |-> FALSE, detached |-> FALSE,
     stored |-> FALSE, res |-> 0]

NoThreads ==
    /\ heap = [i \in Slots |-> NoPack]
    /\ cr = NoCr
    /\ th = [i \in Slots |-> NoThrd]
    /\ tret = NoTret

\* an access to the package at slot i
Touch(h) == IF h.state = "live" THEN h ELSE [h EXCEPT !.bad = TRUE]

Free(h, who) ==
    IF h.state = "live"
    THEN [h EXCEPT !.state = "freed", !.frees = @ + 1, !.by = who,
                   !.func = NoFunc, !.arg = NULL]
    ELSE [h EXCEPT !.bad = TRUE, !.frees = IF @ < 2 THEN @ + 1 ELSE @]

(* ------------------------ 7.25.5.1 thrd_create ------------------------ *)
\* a faulty variant: the result of malloc is not tested
thrd_create_nomem_unchecked(pack) == FALSE

\* if (!pack) return thrd_nomem;
thrd_create_nomem(pack) == pack = 0

\* a faulty variant: the package is freed whatever pthread_create returned
thrd_create_failed_always(rc) == TRUE

\* if (pthread_create(...) != 0) { free(pack); return thrd_error; }
thrd_create_failed(rc) == rc # "0"

\* pack = malloc(...); if (!pack) return thrd_nomem; pack->func = func;
\* pack->arg = arg;  (pack 0 is the null pointer; thr is not NULL)
thrd_create(f, a) ==
    /\ proc = "running"
    /\ cr.at = "idle"
    /\ \E i \in Slots :
        /\ heap[i].state = "none"
        /\ \A j \in Slots : j < i => heap[j].state # "none"
        /\ \E pack \in {0, i} :
            IF thrd_create_nomem(pack)
            THEN /\ tret' = [NoTret EXCEPT !.op = "thrd_create", !.slot = i,
                                !.ret = thrd_nomem, !.natives = {"malloc"},
                                !.nomem = pack = 0]
                 /\ UNCHANGED <<heap, cr, th, proc>>
            ELSE IF pack = 0
            THEN \* a write through the null pointer
                 /\ proc' = "crashed"
                 /\ tret' = [NoTret EXCEPT !.op = "thrd_create", !.slot = i,
                                !.natives = {"malloc"}, !.nomem = TRUE]
                 /\ UNCHANGED <<heap, cr, th>>
            ELSE /\ heap' = [heap EXCEPT ![i] =
                    [NoPack EXCEPT !.state = "live", !.func = f, !.arg = a,
                                   !.given = [func |-> f, arg |-> a]]]
                 /\ cr' = [NoCr EXCEPT !.at = "create", !.slot = i,
                                       !.natives = {"malloc"}]
                 /\ tret' = NoTret
                 /\ UNCHANGED <<th, proc>>
    /\ UNCHANGED <<build, mutex, now, pc, call, last>>

\* pthread_create(thr, NULL, impl_thrd_routine, pack)
thrd_create_native ==
    /\ proc = "running"
    /\ cr.at = "create"
    /\ \E rc \in {"0", "EAGAIN"} :
        /\ cr' = [cr EXCEPT !.at = "created", !.rc = rc,
                            !.natives = @ \cup {"pthread_create"}]
        /\ th' = IF rc = "0"
                 THEN [th EXCEPT ![cr.slot] =
                         [NoThrd EXCEPT !.state = "running", !.at = "copy"]]
                 ELSE th
    /\ tret' = NoTret
    /\ UNCHANGED <<heap>>
    /\ UNCHANGED mvars

\* the rest of thrd_create after pthread_create has returned
thrd_create_return ==
    /\ proc = "running"
    /\ cr.at = "created"
    /\ IF thrd_create_failed(cr.rc)
       THEN /\ heap' = [heap EXCEPT ![cr.slot] =
                        [Free(@, "creator") EXCEPT
                            !.raced = th[cr.slot].state # "none"]]
            /\ tret' = [NoTret EXCEPT !.op = "thrd_create", !.slot = cr.slot,
                           !.ret = thrd_error, !.rc = cr.rc,
                           !.natives = cr.natives \cup {"free"}]
       ELSE /\ heap' = heap
            /\ tret' = [NoTret EXCEPT !.op = "thrd_create", !.slot = cr.slot,
                           !.ret = thrd_success, !.rc = cr.rc,
                           !.natives = cr.natives]
    /\ cr' = NoCr
    /\ UNCHANGED <<th>>
    /\ UNCHANGED mvars

(* ------------------------- impl_thrd_routine -------------------------- *)
\* a faulty variant: the start function is called before the free
impl_thrd_routine_next_late_free(at) ==
    IF at = "copy" THEN "call" ELSE IF at = "call" THEN "free" ELSE "done"

\* the order of the three statements: the copy, the free, the call
impl_thrd_routine_next(at) ==
    IF at = "copy" THEN "free" ELSE IF at = "free" THEN "call" ELSE "done"

\* the thread terminates when impl_thrd_routine is done or has called
\* pthread_exit, and a detached thread's resources are released with it
Finish(x) ==
    IF x.at = "done"
    THEN [x EXCEPT !.state = "terminated", !.at = "none",
                   !.released = x.detached]
    ELSE x

\* struct impl_thrd_param pack = *((struct impl_thrd_param *)p);
impl_thrd_routine_copy(i) ==
    /\ proc = "running"
    /\ th[i].state = "running" /\ th[i].at = "copy"
    /\ heap' = [heap EXCEPT ![i] = Touch(@)]
    /\ th' = [th EXCEPT ![i] =
                Finish([@ EXCEPT !.at = impl_thrd_routine_next("copy"),
                                 !.func = heap[i].func,
                                 !.arg = heap[i].arg])]
    /\ tret' = NoTret
    /\ UNCHANGED <<cr>>
    /\ UNCHANGED mvars

\* free(p);
impl_thrd_routine_free(i) ==
    /\ proc = "running"
    /\ th[i].state = "running" /\ th[i].at = "free"
    /\ heap' = [heap EXCEPT ![i] = Free(@, "thread")]
    /\ th' = [th EXCEPT ![i] =
                Finish([@ EXCEPT !.at = impl_thrd_routine_next("free")])]
    /\ tret' = NoTret
    /\ UNCHANGED <<cr>>
    /\ UNCHANGED mvars

(* --------------------------- 7.25.5.5 thrd_exit ----------------------- *)
\* pthread_exit((void*)(intptr_t)res);
thrd_exit(res) == pthread_exit(thrd_exit_result(res))

\* return (void*)(intptr_t)pack.func(pack.arg);  the start function runs:
\* it returns its code, or calls thrd_exit with it.  Either way the thread
\* terminates, and a detached thread's resources are released with it.
\* how, got, pack, past: how the start function ended, the argument it
\* got, the state of the package when it was called, and whether it ran
\* on after thrd_exit.
impl_thrd_routine_call(i) ==
    /\ proc = "running"
    /\ th[i].state = "running" /\ th[i].at = "call"
    /\ LET f == th[i].func
           x == thrd_exit(f.ret)
           exited == f.how = "exit" /\ ~x.returns
       IN th' = [th EXCEPT ![i] = Finish([@ EXCEPT
                   !.at = IF exited THEN "done"
                          ELSE impl_thrd_routine_next("call"),
                   !.calls = @ + 1, !.got = th[i].arg,
                   !.pack = heap[i].state,
                   !.func = NoFunc, !.arg = NULL,
                   !.retv = f.ret, !.how = f.how,
                   !.past = f.how = "exit" /\ x.returns,
                   !.exit = IF exited THEN x.exit
                            ELSE IF f.how = "exit"
                            THEN impl_thrd_routine_result(0)
                            ELSE impl_thrd_routine_result(f.ret)])]
    /\ tret' = NoTret
    /\ UNCHANGED <<heap, cr>>
    /\ UNCHANGED mvars

(* ----------------------------- 7.25.5.6 thrd_join --------------------- *)
\* pthread_join on thread x: the outcomes [rc, code]; rc "BLOCK" stands for
\* the caller being suspended.  On a thread that is not joinable (detached,
\* or joined before) the call is undefined: it fails, it returns 0 with
\* whatever code it finds, or it does not return.
pthread_join(x) ==
    IF ~x.detached /\ ~x.joined
    THEN IF x.state = "terminated"
         THEN {[rc |-> "0", code |-> x.exit]}
         ELSE {[rc |-> "BLOCK", code |-> 0]}
    ELSE {[rc |-> "EINVAL", code |-> 0], [rc |-> "ESRCH", code |-> 0],
          [rc |-> "0", code |-> x.exit], [rc |-> "BLOCK", code |-> 0]}

\* a faulty variant: the result of pthread_join is not looked at
thrd_join_failed_never(rc) == FALSE

\* if (pthread_join(thr, &code) != 0) return thrd_error;
thrd_join_failed(rc) == rc # "0"

\* what thrd_join returns once pthread_join has returned o for thread i
JoinReturn(i, o, res) ==
    [NoTret EXCEPT
        !.op = "thrd_join", !.slot = i, !.rc = o.rc,
        !.natives = {"pthread_join"},
        !.joinable = ~th[i].detached /\ ~th[i].joined,
        !.detached = th[i].detached,
        !.ret = IF thrd_join_failed(o.rc) THEN thrd_error ELSE thrd_success,
        !.stored = ~thrd_join_failed(o.rc) /\ res,
        !.res = IF ~thrd_join_failed(o.rc) /\ res
                THEN thrd_join_result(o.code) ELSE 0]

Joined(i, o) ==
    IF o.rc = "0"
    THEN [th EXCEPT ![i].joined = TRUE, ![i].released = TRUE]
    ELSE th

thrd_join(i, res) ==
    /\ proc = "running"
    /\ cr.at = "idle"
    /\ th[i].state # "none"
    /\ \E o \in pthread_join(th[i]) :
        IF o.rc = "BLOCK"
        THEN /\ cr' = [NoCr EXCEPT !.at = "join", !.slot = i, !.res = res]
             /\ tret' = NoTret
             /\ th' = th
        ELSE /\ cr' = cr
             /\ tret' = JoinReturn(i, o, res)
             /\ th' = Joined(i, o)
    /\ UNCHANGED <<heap>>
    /\ UNCHANGED mvars

\* the thread that a suspended pthread_join waits for has terminated
thrd_join_wake ==
    /\ proc = "running"
    /\ cr.at = "join"
    /\ th[cr.slot].state = "terminated"
    /\ LET o == [rc |-> "0", code |-> th[cr.slot].exit] IN
        /\ tret' = JoinReturn(cr.slot, o, cr.res)
        /\ th' = Joined(cr.slot, o)
    /\ cr' = NoCr
    /\ UNCHANGED <<heap>>
    /\ UNCHANGED mvars

(* ---------------------------- 7.25.5.3 thrd_detach -------------------- *)
\* pthread_detach on thread x; undefined on a thread that is not joinable
pthread_detach(x) ==
    IF ~x.detached /\ ~x.joined
    THEN {[rc |-> "0", x |-> [x EXCEPT !.detached = TRUE,
                                       !.released = x.state = "terminated"]]}
    ELSE {[rc |-> "EINVAL", x |-> x], [rc |-> "0", x |-> x]}

thrd_detach_result(rc) == IF rc = "0" THEN thrd_success ELSE thrd_error

thrd_detach(i) ==
    /\ proc = "running"
    /\ cr.at = "idle"
    /\ th[i].state # "none"
    /\ \E o \in pthread_detach(th[i]) :
        /\ th' = [th EXCEPT ![i] = o.x]
        /\ tret' = [NoTret EXCEPT !.op = "thrd_detach", !.slot = i,
                       !.rc = o.rc, !.natives = {"pthread_detach"},
                       !.ret = thrd_detach_result(o.rc)]
    /\ UNCHANGED <<heap, cr>>
    /\ UNCHANGED mvars

(* ------------------------ the contention test ------------------------- *)
\* Each worker: Iters times { acquire by mtx_lock or by mtx_trylock until it
\* succeeds; read the counter; write it back plus one; mtx_unlock }.
Workers == 1..NWorkers

w_acquire(w) ==
    /\ wk[w].at = "acquire"
    /\ \/ mtx_lock(w, TheMutex)
       \/ mtx_lock_wake(w)
       \/ mtx_trylock(w, TheMutex)
    /\ wk' = [wk EXCEPT ![w].at =
                IF last'.t = w /\ last'.ret = thrd_success
                THEN "read" ELSE "acquire"]
    /\ UNCHANGED counter

w_read(w) ==
    /\ wk[w].at = "read"
    /\ wk' = [wk EXCEPT ![w].at = "write", ![w].tmp = counter]
    /\ last' = NoLast
    /\ UNCHANGED <<build, proc, mutex, now, pc, call, counter>>

w_write(w) ==
    /\ wk[w].at = "write"
    /\ counter' = wk[w].tmp + 1
    /\ wk' = [wk EXCEPT ![w].at = "release", ![w].tmp = 0]
    /\ last' = NoLast
    /\ UNCHANGED <<build, proc, mutex, now, pc, call>>

w_release(w) ==
    /\ wk[w].at = "release"
    /\ mtx_unlock(w, TheMutex)
    /\ wk' = [wk EXCEPT ![w].left = @ - 1,
                        ![w].at = IF wk[w].left = 1 THEN "done" ELSE "acquire"]
    /\ UNCHANGED counter

InCritical(w) == wk[w].at \in {"read", "write", "release"}
AllJoined == \A w \in Workers : wk[w].at = "done"

(* --------------------------- specifications --------------------------- *)
Builds == [native : BOOLEAN, ndebug : BOOLEAN]

\* creation and plain use of the mutex: every kind value, no timed lock
InitKinds ==
    /\ build \in Builds
    /\ proc = "running"
    /\ mutex = NoMutex
    /\ now = 0
    /\ pc = [t \in Threads |-> "idle"]
    /\ call = [t \in Threads |-> NoCall]
    /\ last = NoLast
    /\ counter = 0
    /\ wk = <<>>
    /\ NoThreads

NextKinds ==
    \/ \E t \in Threads, m \in MtxArgs, k \in KindValues :
          mtx_init(t, m, k) /\ UNCHANGED <<cvars, tvars>>
    \/ \E t \in Threads, m \in MtxArgs : mtx_lock(t, m) /\ UNCHANGED <<cvars, tvars>>
    \/ \E t \in Threads : mtx_lock_wake(t) /\ UNCHANGED <<cvars, tvars>>
    \/ \E t \in Threads, m \in MtxArgs : mtx_trylock(t, m) /\ UNCHANGED <<cvars, tvars>>
    \/ \E t \in Threads, m \in MtxArgs : mtx_unlock(t, m) /\ UNCHANGED <<cvars, tvars>>

SpecKinds == InitKinds /\ [][NextKinds]_vars

\* the timed lock on a mutex that mtx_init has set up as timed, the native
\* initialisation having succeeded
TimedKinds == {mtx_timed, mtx_timed \cup mtx_recursive}

Init ==
    /\ build \in Builds
    /\ proc = "running"
    /\ mutex \in {o.m : o \in UNION {mtx_init_native(k) : k \in TimedKinds}}
    /\ mutex.created /\ mutex.recursive = (mutex.kind \cap mtx_recursive # {})
    /\ now = 0
    /\ pc = [t \in Threads |-> "idle"]
    /\ call = [t \in Threads |-> NoCall]
    /\ last = NoLast
    /\ counter = 0
    /\ wk = <<>>
    /\ NoThreads

Next ==
    \/ \E t \in Threads, m \in MtxArgs : mtx_lock(t, m) /\ UNCHANGED <<cvars, tvars>>
    \/ \E t \in Threads : mtx_lock_wake(t) /\ UNCHANGED <<cvars, tvars>>
    \/ \E t \in Threads, m \in MtxArgs : mtx_unlock(t, m) /\ UNCHANGED <<cvars, tvars>>
    \/ \E t \in Threads, a \in TimedArgs :
          mtx_timedlock(t, a[1], a[2]) /\ UNCHANGED <<cvars, tvars>>
    \/ \E t \in Threads : mtx_timedlock_wake(t) /\ UNCHANGED <<cvars, tvars>>
    \/ \E t \in Threads : mtx_timedlock_try(t) /\ UNCHANGED <<cvars, tvars>>
    \/ \E t \in Threads : mtx_timedlock_check(t) /\ UNCHANGED <<cvars, tvars>>
    \/ Tick /\ UNCHANGED <<cvars, tvars>>

Spec == Init /\ [][Next]_vars

\* the emulated timed lock with a clock that keeps advancing and callers
\* that keep being scheduled.  Calls start while the clock is at most
\* MaxTime, so every expiry lies before LastTime, where the clock stops,
\* and only with a hold count that leaves room for one more hold.  The
\* mutex is not recursive and the deadlines are whole seconds.
LastTime == 2 * MaxTime + 1

InitEmulated ==
    /\ Init
    /\ build = [native |-> FALSE, ndebug |-> FALSE]
    /\ mutex.kind = mtx_timed

NextEmulated ==
    \/ \E t \in Threads : mtx_lock(t, TheMutex) /\ UNCHANGED <<cvars, tvars>>
    \/ \E t \in Threads : mtx_lock_wake(t) /\ UNCHANGED <<cvars, tvars>>
    \/ \E t \in Threads : mtx_unlock(t, TheMutex) /\ UNCHANGED <<cvars, tvars>>
    \/ \E t \in Threads, x \in XTimes :
          /\ now <= MaxTime
          /\ x.nsec = 0
          /\ mutex.owner = t => mutex.count < MaxHold
          /\ mtx_timedlock(t, TheMutex, x)
          /\ UNCHANGED <<cvars, tvars>>
    \/ \E t \in Threads : mtx_timedlock_try(t) /\ UNCHANGED <<cvars, tvars>>
    \/ \E t \in Threads : mtx_timedlock_check(t) /\ UNCHANGED <<cvars, tvars>>
    \/ Clock(LastTime) /\ UNCHANGED <<cvars, tvars>>

SpecEmulated ==
    /\ InitEmulated
    /\ [][NextEmulated]_vars
    /\ WF_vars(Clock(LastTime) /\ UNCHANGED <<cvars, tvars>>)
    /\ \A t \in Threads :
        /\ WF_vars(mtx_timedlock_try(t) /\ UNCHANGED <<cvars, tvars>>)
        /\ WF_vars(mtx_timedlock_check(t) /\ UNCHANGED <<cvars, tvars>>)

\* the emulated timed lock called with two deadlines that differ in the
\* nanoseconds only, against the same clock and the same other thread
InitTwin ==
    /\ build = [native |-> FALSE, ndebug |-> FALSE]
    /\ proc = "running"
    /\ mutex \in {o.m : o \in UNION {mtx_init_native(k) : k \in TimedKinds}}
    /\ mutex.created /\ mutex.recursive = (mutex.kind \cap mtx_recursive # {})
    /\ now = 0
    /\ pc = [t \in Threads \cup Runs |-> "idle"]
    /\ call = [t \in Threads \cup Runs |-> NoCall]
    /\ last = NoLast
    /\ counter = 0
    /\ wk = <<>>
    /\ NoThreads

NextTwin ==
    \/ \E t \in Threads : mtx_lock(t, TheMutex) /\ UNCHANGED <<cvars, tvars>>
    \/ \E t \in Threads : mtx_lock_wake(t) /\ UNCHANGED <<cvars, tvars>>
    \/ \E t \in Threads : mtx_unlock(t, TheMutex) /\ UNCHANGED <<cvars, tvars>>
    \/ \E xa \in XTimes, xb \in XTimes :
          /\ xa.sec = xb.sec
          /\ twin_call(xa, xb) /\ UNCHANGED <<cvars, tvars>>
    \/ twin_try /\ UNCHANGED <<cvars, tvars>>
    \/ twin_check /\ UNCHANGED <<cvars, tvars>>
    \/ twin_return /\ UNCHANGED <<cvars, tvars>>
    \/ Clock(LastTime) /\ UNCHANGED <<cvars, tvars>>

SpecTwin == InitTwin /\ [][NextTwin]_vars

\* the timed wait on a condition variable guarded by a plain mutex
InitCnd ==
    /\ build = [native |-> TRUE, ndebug |-> FALSE]
    /\ proc = "running"
    /\ mutex \in {o.m : o \in mtx_init_native(mtx_plain)}
    /\ mutex.created /\ ~mutex.recursive
    /\ now = 0
    /\ pc = [t \in Threads |-> "idle"]
    /\ call = [t \in Threads |-> NoCall]
    /\ last = NoLast
    /\ counter = 0
    /\ wk = <<>>
    /\ NoThreads

NextCnd ==
    \/ \E t \in Threads : mtx_lock(t, TheMutex) /\ UNCHANGED <<cvars, tvars>>
    \/ \E t \in Threads : mtx_lock_wake(t) /\ UNCHANGED <<cvars, tvars>>
    \/ \E t \in Threads : mtx_unlock(t, TheMutex) /\ UNCHANGED <<cvars, tvars>>
    \/ \E t \in Threads, x \in XTimes :
          cnd_timedwait(t, x) /\ UNCHANGED <<cvars, tvars>>
    \/ \E t \in Threads : cnd_signal(t) /\ UNCHANGED <<cvars, tvars>>
    \/ \E t \in Threads : cnd_timedwait_timeout(t) /\ UNCHANGED <<cvars, tvars>>
    \/ \E t \in Threads : cnd_timedwait_wake(t) /\ UNCHANGED <<cvars, tvars>>
    \/ Tick /\ UNCHANGED <<cvars, tvars>>

SpecCnd == InitCnd /\ [][NextCnd]_vars

\* threads that sleep while others lock and unlock a plain mutex
InitSleep ==
    /\ build \in [native : {TRUE}, ndebug : BOOLEAN]
    /\ proc = "running"
    /\ mutex \in {o.m : o \in mtx_init_native(mtx_plain)}
    /\ mutex.created /\ ~mutex.recursive
    /\ now = 0
    /\ pc = [t \in Threads |-> "idle"]
    /\ call = [t \in Threads |-> NoCall]
    /\ last = NoLast
    /\ counter = 0
    /\ wk = <<>>
    /\ NoThreads

NextSleep ==
    \/ \E t \in Threads : mtx_lock(t, TheMutex) /\ UNCHANGED <<cvars, tvars>>
    \/ \E t \in Threads : mtx_lock_wake(t) /\ UNCHANGED <<cvars, tvars>>
    \/ \E t \in Threads : mtx_unlock(t, TheMutex) /\ UNCHANGED <<cvars, tvars>>
    \/ \E t \in Threads, x \in XtArgs :
          now <= MaxTime /\ thrd_sleep(t, x) /\ UNCHANGED <<cvars, tvars>>
    \/ \E t \in Threads : thrd_sleep_wake(t) /\ UNCHANGED <<cvars, tvars>>
    \/ Clock(LastTime) /\ UNCHANGED <<cvars, tvars>>

SpecSleep == InitSleep /\ [][NextSleep]_vars

\* the six kinds mtx_init accepts
ValidKinds == {k \in KindValues : ValidKind(k)}

\* a mutex of any valid kind, created with every native call succeeding,
\* under all four locking operations, the timed lock with deadlines of whole
\* seconds
InitAlike ==
    /\ build \in [native : BOOLEAN, ndebug : {FALSE}]
    /\ proc = "running"
    /\ mutex \in {o.m : o \in UNION {mtx_init_native(k) : k \in ValidKinds}}
    /\ mutex.created
    /\ mutex.recursive <=> ("recursive" \in mutex.kind)
    /\ now = 0
    /\ pc = [t \in Threads |-> "idle"]
    /\ call = [t \in Threads |-> NoCall]
    /\ last = NoLast
    /\ counter = 0
    /\ wk = <<>>
    /\ NoThreads

NextAlike ==
    \/ \E t \in Threads : mtx_lock(t, TheMutex) /\ UNCHANGED <<cvars, tvars>>
    \/ \E t \in Threads : mtx_lock_wake(t) /\ UNCHANGED <<cvars, tvars>>
    \/ \E t \in Threads : mtx_trylock(t, TheMutex) /\ UNCHANGED <<cvars, tvars>>
    \/ \E t \in Threads : mtx_unlock(t, TheMutex) /\ UNCHANGED <<cvars, tvars>>
    \/ \E t \in Threads, x \in XTimes :
          x.nsec = 0 /\ mtx_timedlock(t, TheMutex, x)
            /\ UNCHANGED <<cvars, tvars>>
    \/ \E t \in Threads : mtx_timedlock_wake(t) /\ UNCHANGED <<cvars, tvars>>
    \/ \E t \in Threads : mtx_timedlock_try(t) /\ UNCHANGED <<cvars, tvars>>
    \/ \E t \in Threads : mtx_timedlock_check(t) /\ UNCHANGED <<cvars, tvars>>
    \/ Tick /\ UNCHANGED <<cvars, tvars>>

SpecAlike == InitAlike /\ [][NextAlike]_vars

\* the contention test on a plain mutex that mtx_init has set up, the
\* native initialisation having succeeded
InitCounter ==
    /\ build \in Builds
    /\ proc = "running"
    /\ mutex \in {o.m : o \in mtx_init_native(mtx_plain)}
    /\ mutex.created /\ ~mutex.recursive
    /\ now = 0
    /\ pc = [w \in Workers |-> "idle"]
    /\ call = [w \in Workers |-> NoCall]
    /\ last = NoLast
    /\ counter = 0
    /\ wk = [w \in Workers |-> [at |-> "acquire", tmp |-> 0, left |-> Iters]]
    /\ NoThreads

NextCounter ==
    \/ \E w \in Workers : w_acquire(w) /\ UNCHANGED tvars
    \/ \E w \in Workers : w_read(w) /\ UNCHANGED tvars
    \/ \E w \in Workers : w_write(w) /\ UNCHANGED tvars
    \/ \E w \in Workers : w_release(w) /\ UNCHANGED tvars

SpecCounter == InitCounter /\ [][NextCounter]_vars

\* thread creation, the trampoline, join and detach
InitThread ==
    /\ build = [native |-> TRUE, ndebug |-> FALSE]
    /\ proc = "running"
    /\ mutex = NoMutex
    /\ now = 0
    /\ pc = <<>>
    /\ call = <<>>
    /\ last = NoLast
    /\ counter = 0
    /\ wk = <<>>
    /\ NoThreads

NextThread ==
    \/ \E f \in Funcs, a \in Args : thrd_create(f, a) /\ UNCHANGED cvars
    \/ thrd_create_native /\ UNCHANGED cvars
    \/ thrd_create_return /\ UNCHANGED cvars
    \/ \E i \in Slots : impl_thrd_routine_copy(i) /\ UNCHANGED cvars
    \/ \E i \in Slots : impl_thrd_routine_free(i) /\ UNCHANGED cvars
    \/ \E i \in Slots : impl_thrd_routine_call(i) /\ UNCHANGED cvars
    \/ \E i \in Slots, res \in BOOLEAN : thrd_join(i, res) /\ UNCHANGED cvars
    \/ thrd_join_wake /\ UNCHANGED cvars
    \/ \E i \in Slots : thrd_detach(i) /\ UNCHANGED cvars

SpecThread == InitThread /\ [][NextThread]_vars

(* ------------------------------- claims ------------------------------- *)

\* C1 (SpecCounter): workers that acquire the shared plain mutex by mtx_lock
\* or by a successful mtx_trylock, read and write back the counter and call
\* mtx_unlock are never two at a time between acquire and release, and once
\* all have finished the counter equals the number of increments performed.
C1_NoLostUpdate ==
    /\ \A v \in Workers, w \in Workers :
          InCritical(v) /\ InCritical(w) => v = w
    /\ AllJoined => counter = NWorkers * Iters

C1_Witness == AllJoined /\ counter = NWorkers * Iters /\ counter > 1

\* C2 (SpecKinds): on a mutex that mtx_init set up with the recursive bit,
\* the thread that holds the mutex and calls mtx_lock again is not suspended
\* and gets thrd_success, and a thread that does not hold it gets thrd_busy
\* from mtx_trylock for as long as the holder has unlocks outstanding.
C2_RecursiveRelock ==
    (mutex.kind \cap mtx_recursive # {}) =>
        /\ \A t \in Threads : mutex.owner = t => pc[t] # "lock_blocked"
        /\ (last.op = "mtx_lock" /\ last.ret # NoRet /\ mutex.owner = last.t)
              => last.ret = thrd_success
        /\ (last.op = "mtx_trylock" /\ last.held) => last.ret = thrd_busy

\* C3 (SpecKinds): mtx_init returns thrd_success for the six valid kinds and
\* the mutex can then be locked; for every other kind value it returns
\* thrd_error and has made no native call, so no native mutex exists.
C3_InitKinds ==
    (last.op = "mtx_init" /\ ~last.nullarg) =>
        IF last.type \in {mtx_plain, mtx_timed, mtx_try,
                          mtx_plain \cup mtx_recursive,
                          mtx_timed \cup mtx_recursive,
                          mtx_try \cup mtx_recursive}
        THEN last.ret = thrd_success /\ CanAcquire(mutex, last.t)
        ELSE last.ret = thrd_error /\ last.natives = {} /\ ~mutex.created

\* C4 (Spec): in both strategies mtx_timedlock with a deadline strictly
\* before the clock at call entry, on a mutex another thread holds
\* throughout, is never suspended in the native call, yields at most once
\* and returns thrd_busy.
C4_PastDeadlineBusy ==
    /\ \A t \in Threads :
          (call[t].op = "mtx_timedlock" /\ When(call[t]) = "past"
             /\ call[t].held)
          => pc[t] # "timed_blocked" /\ call[t].yields <= 1
    /\ (last.op = "mtx_timedlock" /\ ~last.nullarg /\ last.when = "past"
          /\ last.held)
          => last.ret = thrd_busy /\ last.yields <= 1

\* C5 (Spec): in both strategies mtx_timedlock with a deadline after the
\* clock at call entry, on a mutex no thread holds, returns thrd_success
\* with the caller holding the mutex and without a yield; while the call is
\* in progress its next step acquires the mutex, so no clock tick is needed.
C5_FutureDeadlineFree ==
    /\ \A t \in Threads :
          (call[t].op = "mtx_timedlock" /\ When(call[t]) = "future"
             /\ call[t].free)
          => pc[t] = "timed_try" /\ call[t].yields = 0
             /\ CanAcquire(mutex, t)
    /\ (last.op = "mtx_timedlock" /\ ~last.nullarg /\ last.when = "future"
          /\ last.free)
          => last.ret = thrd_success /\ last.holds /\ last.yields = 0

C5_Witness ==
    /\ last.op = "mtx_timedlock" /\ last.when = "future" /\ last.free
    /\ last.ret = thrd_success /\ last.holds
    /\ ~build.native
    /\ "pthread_mutex_trylock" \in last.natives

\* C9 (Spec): mtx_timedlock with a null mutex or a null deadline returns
\* thrd_error, having made no native call, and the process keeps running.
C9_NullArguments ==
    (last.op = "mtx_timedlock" /\ last.nullarg) =>
        /\ proc = "running"
        /\ last.ret = thrd_error
        /\ last.natives = {}

\* the two conversions of the exit value, composed, on every int
C6_AllInts ==
    \A v \in Ints : thrd_join_result(impl_thrd_routine_result(v)) = v

\* C6: the int a start function returns reaches the joiner unchanged.  The
\* trampoline's (void*)(intptr_t) and thrd_join's (int)(intptr_t) compose
\* to the identity on every int, and a thrd_join of a joinable thread that
\* stores a result succeeds and stores the value the start function
\* returned.
C6_RoundTrip ==
    /\ C6_AllInts
    /\ (tret.op = "thrd_join" /\ tret.joinable /\ tret.stored) =>
        /\ tret.ret = thrd_success
        /\ tret.res = th[tret.slot].retv

C6_Witness ==
    /\ tret.op = "thrd_join" /\ tret.joinable /\ tret.stored
    /\ tret.ret = thrd_success
    /\ th[tret.slot].retv = INT_MIN
    /\ tret.res = INT_MIN

\* C7: when malloc fails inside thrd_create the call returns thrd_nomem,
\* pthread_create is not called, no thread exists, nothing stays allocated
\* and the start function is never called.
C7_NoMem ==
    (tret.op = "thrd_create" /\ tret.nomem) =>
        /\ proc = "running"
        /\ tret.ret = thrd_nomem
        /\ "pthread_create" \notin tret.natives
        /\ heap[tret.slot].state = "none"
        /\ th[tret.slot].state = "none"
        /\ th[tret.slot].calls = 0

C7_Witness ==
    /\ tret.op = "thrd_create" /\ tret.nomem
    /\ tret.ret = thrd_nomem
    /\ tret.natives = {"malloc"}

\* C8: the start package is freed at most once and never touched when it is
\* not allocated; the creator frees it only when pthread_create failed (no
\* thread exists then) and never touches it while the new thread exists;
\* the new thread frees it after copying it and before the start function
\* runs; a failed thrd_create leaves it freed.
C8_PackageFreedOnce ==
    /\ \A i \in Slots :
        /\ heap[i].frees <= 1
        /\ ~heap[i].bad
        /\ ~heap[i].raced
        /\ heap[i].by = "creator" => th[i].state = "none"
        /\ heap[i].by = "thread" => th[i].state # "none"
        /\ (th[i].state # "none" /\ th[i].at \notin {"copy", "free"}) =>
                heap[i].state = "freed" /\ heap[i].by = "thread"
        /\ th[i].calls > 0 => heap[i].frees = 1
    /\ (tret.op = "thrd_create" /\ tret.ret = thrd_error) =>
            heap[tret.slot].state = "freed" /\ heap[tret.slot].by = "creator"
    /\ (tret.op = "thrd_create" /\ tret.ret = thrd_success) =>
            th[tret.slot].state # "none"

C8_Witness ==
    \E i \in Slots :
        /\ th[i].state = "terminated" /\ th[i].calls = 1
        /\ heap[i].state = "freed" /\ heap[i].frees = 1
        /\ heap[i].by = "thread"

\* C10 as stated: after a successful thrd_detach a later thrd_join of the
\* same handle returns thrd_error and does not block, and a detached thread
\* that has terminated has its resources released without a join.
C10_JoinAfterDetachFails ==
    /\ (tret.op = "thrd_join" /\ tret.detached) => tret.ret = thrd_error
    /\ cr.at = "join" => ~th[cr.slot].detached
    /\ \A i \in Slots :
        (th[i].detached /\ th[i].state = "terminated") => th[i].released

\* C10 amended: after a successful thrd_detach a later thrd_join of the
\* same handle does nothing but call pthread_join, whose behaviour on a
\* detached thread is undefined: thrd_join returns thrd_error exactly when
\* pthread_join reports an error, and otherwise returns thrd_success or
\* blocks.  A detached thread that has terminated has its resources
\* released without a join.
C10_JoinAfterDetachNative ==
    /\ (tret.op = "thrd_join" /\ tret.detached) =>
        /\ tret.natives = {"pthread_join"}
        /\ tret.ret = thrd_error <=> tret.rc # "0"
        /\ tret.ret = thrd_success <=> tret.rc = "0"
    /\ \A i \in Slots :
        (th[i].detached /\ th[i].state = "terminated") => th[i].released

C10_Witness ==
    /\ tret.op = "thrd_join" /\ tret.detached
    /\ tret.ret = thrd_error
    /\ th[tret.slot].state = "terminated"
    /\ th[tret.slot].released /\ ~th[tret.slot].joined

\* the exit value of thrd_exit and of a return, on every int
C11_AllInts ==
    \A v \in Ints : thrd_exit_result(v) = impl_thrd_routine_result(v)

\* C11 (SpecThread): thrd_exit(code) publishes the same exit value as a
\* return of code from the start function, for every int, and does not
\* return to the start function; a thrd_join of a joinable thread returns
\* thrd_success only once the thread has terminated and stores the code,
\* whichever way the thread ended.
C11_ExitAsReturn ==
    /\ C11_AllInts
    /\ \A i \in Slots : ~th[i].past
    /\ (tret.op = "thrd_join" /\ tret.joinable /\ tret.ret = thrd_success) =>
        /\ th[tret.slot].state = "terminated"
        /\ th[tret.slot].how \in {"return", "exit"}
        /\ tret.stored => tret.res = th[tret.slot].retv

C11_Witness ==
    /\ tret.op = "thrd_join" /\ tret.joinable /\ tret.stored
    /\ tret.ret = thrd_success
    /\ th[tret.slot].how = "exit"
    /\ th[tret.slot].retv = 0 - 1
    /\ tret.res = 0 - 1

\* C12 (SpecKinds): every mtx_trylock on a mutex returns in the step that
\* calls it, suspending nobody, with thrd_success or thrd_busy and never
\* thrd_error; on a mutex another thread holds it returns thrd_busy and
\* leaves the mutex, owner and hold count included, as it was; when it
\* returns thrd_success the caller holds the mutex.
C12_TryLockFrame ==
    [][(last'.op = "mtx_trylock" /\ ~last'.nullarg) =>
        /\ pc' = pc
        /\ last'.ret \in {thrd_success, thrd_busy}
        /\ last'.held => (last'.ret = thrd_busy /\ mutex' = mutex)
        /\ last'.ret = thrd_success =>
              (mutex'.owner = last'.t /\ mutex'.count = mutex.count + 1)
        /\ last'.ret = thrd_busy => mutex' = mutex]_vars

C12_Witness ==
    /\ last.op = "mtx_trylock" /\ ~last.nullarg /\ last.held
    /\ last.ret = thrd_busy
    /\ mutex.owner \notin {NoThread, last.t} /\ mutex.count = 1

\* C13 (SpecThread): the trampoline copies the start function and the
\* argument out of the live package, then frees the package, then calls
\* the start function: after the copy its locals are what thrd_create was
\* given; before the call the package is freed; the start function is
\* called at most once, and when it has been called the package was
\* already freed and it got the function and argument given to thrd_create.
C13_CopyFreeCall ==
    \A i \in Slots :
        /\ th[i].calls <= 1
        /\ th[i].at = "free" =>
              /\ heap[i].state = "live"
              /\ th[i].func = heap[i].given.func
              /\ th[i].arg = heap[i].given.arg
              /\ th[i].calls = 0
        /\ th[i].at = "call" =>
              /\ heap[i].state = "freed" /\ heap[i].by = "thread"
              /\ th[i].func = heap[i].given.func
              /\ th[i].arg = heap[i].given.arg
              /\ th[i].calls = 0
        /\ th[i].calls = 1 =>
              /\ th[i].state = "terminated"
              /\ th[i].pack = "freed"
              /\ th[i].got = heap[i].given.arg
              /\ th[i].retv = heap[i].given.func.ret
              /\ th[i].how = heap[i].given.func.how
        /\ th[i].state = "terminated" => th[i].calls = 1

C13_Witness ==
    \E i \in Slots :
        /\ th[i].state = "terminated" /\ th[i].calls = 1
        /\ th[i].pack = "freed"
        /\ th[i].got \in Args /\ th[i].got = heap[i].given.arg
        /\ th[i].how = "return" /\ th[i].retv = INT_MAX

\* C14 (Spec): under the native strategy a mtx_timedlock that returns has
\* made the native timed lock its only native call, with the caller's
\* seconds and nanoseconds as the timespec; 0 is returned as thrd_success,
\* ETIMEDOUT as thrd_busy and every other native result as thrd_error;
\* thrd_success is returned exactly when the call acquired the mutex, and
\* otherwise the mutex is as it was; thrd_busy is returned only once the
\* clock has reached the caller's deadline.
C14_NativeMapping ==
    [][(last'.op = "mtx_timedlock" /\ ~last'.nullarg /\ build.native) =>
        /\ last'.natives = {"pthread_mutex_timedlock"}
        /\ last'.ts = [sec |-> last'.xt.sec, nsec |-> last'.xt.nsec]
        /\ Len(last'.rcs) = 1
        /\ last'.ret = (IF last'.rcs[1] = "0" THEN thrd_success
                        ELSE IF last'.rcs[1] = "ETIMEDOUT" THEN thrd_busy
                        ELSE thrd_error)
        /\ last'.ret = thrd_success <=>
              (mutex'.owner = last'.t /\ mutex'.count = mutex.count + 1)
        /\ last'.ret # thrd_success => mutex' = mutex
        /\ last'.ret = thrd_busy => Reached(last'.xt, now)]_vars

C14_Witness ==
    /\ last.op = "mtx_timedlock" /\ ~last.nullarg /\ build.native
    /\ last.xt.nsec = 500 /\ last.ts = [sec |-> last.xt.sec, nsec |-> 500]
    /\ last.rcs = <<"ETIMEDOUT">>
    /\ last.ret = thrd_busy

\* C15 (SpecEmulated): under the emulated strategy, with the clock
\* advancing and the caller scheduled, every mtx_timedlock in progress
\* returns, whether or not the mutex is ever released.  It returns
\* thrd_success only in the step of a trylock that acquired the mutex, and
\* thrd_busy only after a failed trylock when the clock is strictly past
\* the expiry, leaving the mutex as it was; it never returns thrd_error;
\* between a failed trylock and the next trylock it yields.
C15_EmulatedReturns ==
    /\ \A t \in Threads :
          (pc[t] \in {"timed_try", "timed_check"}) ~> (pc[t] = "idle")
    /\ [][(last'.op = "mtx_timedlock" /\ ~last'.nullarg) =>
            /\ last'.ret \in {thrd_success, thrd_busy}
            /\ last'.ret = thrd_success =>
                  /\ pc[last'.t] = "timed_try"
                  /\ mutex'.owner = last'.t
                  /\ mutex'.count = mutex.count + 1
            /\ last'.ret = thrd_busy =>
                  /\ pc[last'.t] = "timed_check"
                  /\ "pthread_mutex_trylock" \in last'.natives
                  /\ call[last'.t].expire < now
                  /\ call[last'.t].expire
                        = call[last'.t].entry + last'.xt.sec
                  /\ mutex' = mutex]_vars
    /\ [][\A t \in Threads :
            /\ (pc[t] = "timed_check" /\ pc'[t] = "timed_try") =>
                  /\ call'[t].yields = call[t].yields + 1
                  /\ "sched_yield" \in call'[t].natives
            /\ (pc[t] \notin {"timed_check", "timed_try"}
                  /\ pc'[t] = "timed_try") =>
                  /\ pc[t] = "idle"
                  /\ call'[t].yields = 0]_vars

C15_Witness ==
    /\ last.op = "mtx_timedlock" /\ ~build.native
    /\ last.ret = thrd_busy /\ last.held
    /\ last.xt.sec = 1 /\ last.yields > 0
    /\ now > 2

\* C16 (SpecTwin): two emulated mtx_timedlock calls whose deadlines differ
\* in the nanoseconds only, run against the same clock and the same mutex,
\* are at the same place after every step, with the same expiry, the same
\* number of yields and the same native calls made, and so return the same
\* result.
C16_NanosecondsIgnored ==
    (\E r \in Runs : call[r].op = "mtx_timedlock") =>
        /\ pc[Caller] = pc[Second]
        /\ call[Caller].xt.sec = call[Second].xt.sec
        /\ call[Caller].expire = call[Second].expire
        /\ call[Caller].yields = call[Second].yields
        /\ call[Caller].natives = call[Second].natives

C16_Witness ==
    /\ pc[Caller] = "ret_busy" /\ pc[Second] = "ret_busy"
    /\ call[Caller].xt.nsec # call[Second].xt.nsec
    /\ call[Caller].xt.sec = 1
    /\ call[Caller].yields > 0 /\ call[Second].yields > 0

\* C17 (SpecCnd): cnd_timedwait gives the native timed wait the caller's
\* deadline xt, so a thread that waits waits until xt; it returns thrd_busy
\* only once the clock has reached xt, it never returns thrd_error for a
\* valid call, and on return the caller holds the mutex.
C17_WaitsUntilDeadline ==
    /\ \A t \in Threads :
          call[t].op = "cnd_timedwait" =>
              call[t].ts = [sec |-> call[t].xt.sec, nsec |-> call[t].xt.nsec]
    /\ last.op = "cnd_timedwait" =>
          /\ last.ts = [sec |-> last.xt.sec, nsec |-> last.xt.nsec]
          /\ last.ret \in {thrd_success, thrd_busy}
          /\ last.ret = thrd_busy => Reached(last.xt, now)
          /\ last.holds

\* C18 (SpecSleep): thrd_sleep(xt) takes xt as a duration counted from the
\* call: it returns only when xt.sec seconds and xt.nsec nanoseconds have
\* passed since the call, whatever the clock read at the call, its native
\* request is xt unchanged, and a step of thrd_sleep changes neither the
\* mutex nor any other thread.
C18_SleepIsRelative ==
    /\ [][(last'.op = "thrd_sleep" /\ ~last'.nullarg) =>
             /\ last'.ts = [sec |-> last'.xt.sec, nsec |-> last'.xt.nsec]
             /\ last'.natives = {"nanosleep"}
             /\ Reached([sec |-> last'.entry + last'.xt.sec,
                         nsec |-> last'.xt.nsec], now')
             /\ last'.entry + last'.xt.sec <= now']_vars
    /\ [][\A t \in Threads :
            ((last'.op = "thrd_sleep" /\ last'.t = t)
               \/ (pc[t] # "sleeping" /\ pc'[t] = "sleeping")) =>
                /\ mutex' = mutex
                /\ (proc' = proc \/ last'.nullarg)
                /\ \A u \in Threads \ {t} : pc'[u] = pc[u] /\ call'[u] = call[u]]_vars

\* a sleep of one second begun when the clock read 1 has returned at 2
C18_Witness ==
    /\ last.op = "thrd_sleep" /\ ~last.nullarg
    /\ last.entry = 1 /\ last.xt.sec = 1 /\ last.xt.nsec = 0 /\ now = 2
    /\ mutex.owner \in Threads \ {last.t}
    /\ \E u \in Threads \ {last.t} : pc[u] = "sleeping"

\* C19 (SpecKinds): for each of the six valid kinds mtx_init returns
\* thrd_success whatever pthread_mutexattr_init, pthread_mutexattr_settype
\* and pthread_mutex_init returned, also when no native mutex was created,
\* and it has called pthread_mutexattr_destroy.
C19_InitIgnoresNative ==
    (last.op = "mtx_init" /\ ~last.nullarg
       /\ (last.type \ mtx_recursive) \in {mtx_plain, mtx_timed, mtx_try}) =>
        /\ last.ret = thrd_success
        /\ Len(last.rcs) = 3
        /\ {"pthread_mutexattr_init", "pthread_mutex_init",
            "pthread_mutexattr_destroy"} \subseteq last.natives
        /\ ("pthread_mutexattr_settype" \in last.natives)
              <=> ("recursive" \in last.type)

\* mtx_init of a recursive kind has returned thrd_success although every
\* native call failed and no native mutex exists
C19_Witness ==
    /\ last.op = "mtx_init" /\ last.ret = thrd_success
    /\ last.type = mtx_timed \cup mtx_recursive
    /\ last.rcs = <<"ENOMEM", "EINVAL", "EINVAL">>
    /\ ~mutex.created

\* a native mutex with the kind it was created as left out
C20_Erase(m) == [m EXCEPT !.kind = NoKind]

C20_Outcomes(S) == {[rc |-> o.rc, m |-> C20_Erase(o.m)] : o \in S}

\* the kinds with the same recursive bit as k
C20_Alike(k) == {j \in ValidKinds : ("recursive" \in j) <=> ("recursive" \in k)}

\* mtx_init gives kinds with the same recursive bit the same native calls,
\* the same results and the same native mutexes
C20_SameInit ==
    \A k \in ValidKinds : \A j \in C20_Alike(k) :
        {[o EXCEPT !.m = C20_Erase(o.m)] : o \in mtx_init_native(j)}
            = {[o EXCEPT !.m = C20_Erase(o.m)] : o \in mtx_init_native(k)}

\* C20 (SpecAlike): after mtx_init only the recursive bit of the kind
\* matters.  Kinds with the same recursive bit get the same native mutex;
\* in every state reached by mtx_lock, mtx_trylock, mtx_timedlock and
\* mtx_unlock of any threads, each native call has the same results and
\* leaves the same mutex whichever of plain, timed and try the mutex was
\* created as; and mtx_trylock and mtx_timedlock on a mutex of any kind,
\* plain included, that no thread holds are not rejected: they return
\* thrd_success.
C20_KindsAlike ==
    /\ C20_SameInit
    /\ \A k \in C20_Alike(mutex.kind) : \A t \in Threads :
          LET m2 == [mutex EXCEPT !.kind = k]
          IN  /\ C20_Outcomes(pthread_mutex_lock(m2, t))
                    = C20_Outcomes(pthread_mutex_lock(mutex, t))
              /\ C20_Outcomes(pthread_mutex_trylock(m2, t))
                    = C20_Outcomes(pthread_mutex_trylock(mutex, t))
              /\ C20_Outcomes(pthread_mutex_unlock(m2, t))
                    = C20_Outcomes(pthread_mutex_unlock(mutex, t))
              /\ \A x \in XTimes :
                    C20_Outcomes(pthread_mutex_timedlock(
                                    m2, t, mtx_timedlock_ts(x), now))
                      = C20_Outcomes(pthread_mutex_timedlock(
                                    mutex, t, mtx_timedlock_ts(x), now))
    /\ (last.op = "mtx_trylock" /\ last.free) =>
          last.ret = thrd_success /\ last.holds
    /\ (last.op = "mtx_timedlock" /\ last.free /\ last.when # "past") =>
          last.ret = thrd_success /\ last.holds
    /\ (last.op = "mtx_trylock" /\ last.held) => last.ret = thrd_busy

\* mtx_timedlock on a plain mutex has acquired it
C20_Witness ==
    /\ last.op = "mtx_timedlock" /\ last.ret = thrd_success /\ last.holds
    /\ mutex.kind = mtx_plain /\ mutex.owner = last.t
    /\ \E u \in Threads \ {last.t} : pc[u] = "lock_blocked"
====
